---- MODULE Spec2Model ----
(***************************************************************************)
(* The mahjong match tracker: the zustand game store (gameStore.ts) and    *)
(* the win / draw flows of the mobile client that drive it.                *)
(*                                                                         *)
(*   Spec     the store as an API: every action of the store may be called *)
(*            in any phase, with any argument of a small set.              *)
(*   SpecApp  the store as the screens and modals of the client call it.   *)
(***************************************************************************)
EXTENDS Integers, Sequences, FiniteSets, TLC

VARIABLES
    phase,               \* 'setup' | 'playing' | 'finished'
    players,             \* Player[]: sequence of [id, score, isDealer, seatWind]
    startingScore,
    rounds,              \* Round[], most recent first
    currentRoundNumber,
    currentRoundWind,    \* 'East' | 'South'
    honba,
    riichiBets,
    playerRiichi,        \* boolean[]
    dealerIndex,         \* 0-based index into players
    lastOp,              \* the last call of the store: [name, arg, threw]
    riichiSnap,          \* what the last declareRiichi call saw, and whether it was undone
    calc,                \* the last call of a settlement calculator: its arguments and result
    screen,              \* the screen of the navigator: "Setup" | "Game" | "Result"
    roundModal,          \* state of RoundModal (and of the hand input it hosts)
    drawModal            \* state of DrawModal

storeVars == <<phase, players, startingScore, rounds, currentRoundNumber,
               currentRoundWind, honba, riichiBets, playerRiichi, dealerIndex>>
auxVars == <<lastOp, riichiSnap, calc>>
uiVars == <<screen, roundModal, drawModal>>
vars == <<storeVars, auxVars, uiVars>>

----------------------------------------------------------------------------
\* Bounds of the model.

\* No round is recorded once the history holds MaxRounds records.
MaxRounds == 2

\* The client opens no round once the history holds MaxAppRounds records.
MaxAppRounds == 1

\* The client sends no scoring request while MaxInflight requests are unanswered.
MaxInflight == 1

\* A match played round after round stops at MaxMatchRounds records.
MaxMatchRounds == 8

----------------------------------------------------------------------------
\* Constants of the program.

WINDS == <<"East", "South", "West", "North">>

\* The price of a riichi stick.
RiichiStick == 1000

\* The points exchanged at an exhaustive draw.
DrawPool == 3000

\* The default of the store's startingScore, and of the setup screen.
DefaultScore == 25000

\* The ids the setup screen gives the players: `player-${i}`.
PlayerId(i) == <<"player-0", "player-1", "player-2", "player-3">>[i + 1]

\* null, as winnerId / loserId.
Null == "null"

\* The value JavaScript's NaN is modelled by: x % 0 is NaN, NaN + 1 is NaN,
\* NaN === x is false for every x.
NaN == -1

----------------------------------------------------------------------------
\* JavaScript arithmetic on numbers that may be NaN.

JsAdd(a, b) == IF a = NaN \/ b = NaN THEN NaN ELSE a + b

JsMod(a, b) == IF a = NaN \/ b = NaN \/ b = 0 THEN NaN ELSE a % b

JsEq(a, b) == a # NaN /\ b # NaN /\ a = b

\* Math.floor(a / b) for a >= 0, b > 0.
FloorDiv(a, b) == a \div b

Max(a, b) == IF a >= b THEN a ELSE b

\* Math.abs
Abs(a) == IF a < 0 THEN -a ELSE a

----------------------------------------------------------------------------
\* Arrays (0-based in the source, sequences here).

Indexes(arr) == 0 .. (Len(arr) - 1)

At(arr, i) == arr[i + 1]

\* arr[i] as a condition: undefined (out of range) is falsy.
Truthy(arr, i) == i \in Indexes(arr) /\ arr[i + 1]

\* const copy = [...arr]; copy[i] = v   (holes read as false)
ArraySet(arr, i, v) ==
    [k \in 1 .. Max(Len(arr), i + 1) |->
        IF k = i + 1 THEN v ELSE IF k <= Len(arr) THEN arr[k] ELSE FALSE]

\* new Array(count).fill(false)
AllFalse(count) == [k \in 1 .. count |-> FALSE]

IdsOf(ps) == {ps[k].id : k \in 1 .. Len(ps)}

RECURSIVE SumScores(_)
SumScores(ps) == IF ps = <<>> THEN 0 ELSE ps[1].score + SumScores(Tail(ps))

RECURSIVE SumOver(_, _)
SumOver(f, S) ==
    IF S = {} THEN 0
    ELSE LET x == CHOOSE y \in S : TRUE IN f[x] + SumOver(f, S \ {x})

\* The sum of the values of a payment mapping.
SumPayments(payments) == SumOver(payments, DOMAIN payments)

\* payments[id] ?? 0
Pay(payments, id) == IF id \in DOMAIN payments THEN payments[id] ELSE 0

\* players.find(p => p.id === id) exists
Has(ps, id) == id \in IdsOf(ps)

\* players.find(p => p.id === id)
Find(ps, id) == ps[CHOOSE k \in 1 .. Len(ps) : ps[k].id = id]

----------------------------------------------------------------------------
\* Seat winds.

\* (mutant) the seats are counted from the player to the dealer.
seatWindOf_Reversed(playerIdx, dealerIdx, count) ==
    IF playerIdx = NaN \/ dealerIdx = NaN \/ count = 0
    THEN "undefined"
    ELSE WINDS[((dealerIdx - playerIdx + count) % count) + 1]

\* WINDS[(playerIdx - dealerIdx + count) % count]; WINDS[NaN] is undefined.
seatWindOf(playerIdx, dealerIdx, count) ==
    IF playerIdx = NaN \/ dealerIdx = NaN \/ count = 0
    THEN "undefined"
    ELSE WINDS[((playerIdx - dealerIdx + count) % count) + 1]

----------------------------------------------------------------------------
\* Settlement calculators.

\* (mutant) the noten players pay what the tenpai players receive.
computeDrawPayments_SameShare(ps, tenpaiPlayerIds) ==
    LET tenpaiCount == Cardinality(tenpaiPlayerIds)
        playerCount == Len(ps)
        notenIds == IdsOf(ps) \ tenpaiPlayerIds
    IN IF tenpaiCount = 0 \/ tenpaiCount = playerCount
       THEN [id \in IdsOf(ps) |-> 0]
       ELSE LET receivePerTenpai == FloorDiv(DrawPool, tenpaiCount)
            IN [id \in IdsOf(ps) \cup tenpaiPlayerIds |->
                   IF id \in notenIds THEN -receivePerTenpai ELSE receivePerTenpai]

computeDrawPayments(ps, tenpaiPlayerIds) ==
    LET tenpaiCount == Cardinality(tenpaiPlayerIds)
        playerCount == Len(ps)
        notenIds == IdsOf(ps) \ tenpaiPlayerIds
        notenCount == Cardinality(notenIds)
    IN IF tenpaiCount = 0 \/ tenpaiCount = playerCount
       THEN [id \in IdsOf(ps) |-> 0]
       ELSE LET receivePerTenpai == FloorDiv(DrawPool, tenpaiCount)
                payPerNoten == FloorDiv(DrawPool, notenCount)
            IN [id \in IdsOf(ps) \cup tenpaiPlayerIds |->
                   IF id \in notenIds THEN -payPerNoten ELSE receivePerTenpai]

\* (mutant) the dealer pays a winner who is not the dealer the non-dealer rate.
computeTsumoPayments_FlatRate(ps, winnerId, dealerPayment, nonDealerPayment, totalPoints) ==
    LET winnerIsDealer == Find(ps, winnerId).isDealer
        pays(p) == IF winnerIsDealer THEN dealerPayment ELSE nonDealerPayment
        out == [id \in IdsOf(ps) \ {winnerId} |-> -pays(Find(ps, id))]
        collected == -SumOver(out, DOMAIN out)
    IN [id \in IdsOf(ps) |-> IF id = winnerId THEN collected ELSE out[id]]

computeTsumoPayments(ps, winnerId, dealerPayment, nonDealerPayment, totalPoints) ==
    LET winnerIsDealer == Find(ps, winnerId).isDealer
        pays(p) == IF winnerIsDealer THEN dealerPayment
                   ELSE IF p.isDealer THEN dealerPayment ELSE nonDealerPayment
        out == [id \in IdsOf(ps) \ {winnerId} |-> -pays(Find(ps, id))]
        collected == -SumOver(out, DOMAIN out)
    IN [id \in IdsOf(ps) |-> IF id = winnerId THEN collected ELSE out[id]]

\* The discard-win mapping: the loser is written first, the winner second.
RonPayments(ps, winnerId, loserId, totalPoints) ==
    [id \in IdsOf(ps) \cup {winnerId, loserId} |->
        IF id = winnerId THEN totalPoints
        ELSE IF id = loserId THEN -totalPoints
        ELSE 0]

----------------------------------------------------------------------------
\* The store.

NoSnap == [set |-> FALSE, idx |-> 0, score |-> 0, bets |-> 0, flag |-> FALSE, undone |-> FALSE]

\* The call just made returned: its name, and its numeric argument (the player
\* count of initGame, the player index of a riichi call, 0 for the other calls).
Called(name, arg) ==
    /\ lastOp' = [name |-> name, arg |-> arg, threw |-> FALSE]
    /\ UNCHANGED calc

\* The call just made threw.
Threw(name, arg) ==
    /\ lastOp' = [name |-> name, arg |-> arg, threw |-> TRUE]
    /\ UNCHANGED calc

\* (mutant) the seat winds are the ones the supplied objects carry.
Initialised_SuppliedWind(supplied, score) ==
    [k \in 1 .. Len(supplied) |->
        [id |-> supplied[k].id, score |-> score, isDealer |-> (k - 1 = 0),
         seatWind |-> supplied[k].seatWind]]

\* The players as initGame builds them from the supplied objects.
Initialised(supplied, score) ==
    [k \in 1 .. Len(supplied) |->
        [id |-> supplied[k].id, score |-> score, isDealer |-> (k - 1 = 0),
         seatWind |-> IF k <= Len(WINDS) THEN WINDS[k] ELSE "undefined"]]

initGame(supplied, score) ==
    /\ phase' = "playing"
    /\ players' = Initialised(supplied, score)
    /\ startingScore' = score
    /\ rounds' = <<>>
    /\ currentRoundNumber' = 1
    /\ currentRoundWind' = "East"
    /\ honba' = 0
    /\ riichiBets' = 0
    /\ playerRiichi' = AllFalse(Len(supplied))
    /\ dealerIndex' = 0
    /\ Called("initGame", Len(supplied))
    /\ riichiSnap' = NoSnap

\* The score of player playerIndex changed by delta.
WithScore(ps, playerIndex, delta) ==
    [k \in 1 .. Len(ps) |->
        IF k - 1 = playerIndex THEN [ps[k] EXCEPT !.score = @ + delta] ELSE ps[k]]

\* What a declareRiichi(playerIndex) call sees before it acts.
SnapOf(playerIndex) ==
    [set |-> TRUE, idx |-> playerIndex,
     score |-> IF playerIndex \in Indexes(players) THEN At(players, playerIndex).score ELSE 0,
     bets |-> riichiBets,
     flag |-> Truthy(playerRiichi, playerIndex),
     undone |-> FALSE]

\* (mutant) the stick is charged to every player.
Deducted_Everyone(ps, playerIndex) ==
    [k \in 1 .. Len(ps) |-> [ps[k] EXCEPT !.score = @ - RiichiStick]]

\* The players after player playerIndex paid a riichi stick.
Deducted(ps, playerIndex) == WithScore(ps, playerIndex, -RiichiStick)

\* (mutant) the stick is taken back and the score is not credited.
Refunded_NoCredit(ps, playerIndex) == ps

\* The players after player playerIndex took the riichi stick back.
Refunded(ps, playerIndex) == WithScore(ps, playerIndex, RiichiStick)

declareRiichi(playerIndex) ==
    /\ Called("declareRiichi", playerIndex)
    /\ riichiSnap' = SnapOf(playerIndex)
    /\ IF Truthy(playerRiichi, playerIndex)
       THEN UNCHANGED storeVars
       ELSE /\ players' = Deducted(players, playerIndex)
            /\ playerRiichi' = ArraySet(playerRiichi, playerIndex, TRUE)
            /\ riichiBets' = riichiBets + 1
            /\ UNCHANGED <<phase, startingScore, rounds, currentRoundNumber,
                           currentRoundWind, honba, dealerIndex>>

\* (mutant) the stick stays in the pool.
PoolAfterUndo_Kept(bets) == bets

\* The bet pool after a stick was taken back: Math.max(0, riichiBets - 1)
PoolAfterUndo(bets) == Max(0, bets - 1)

undoRiichi(playerIndex) ==
    /\ Called("undoRiichi", playerIndex)
    /\ riichiSnap' = IF riichiSnap.set /\ riichiSnap.idx = playerIndex /\ ~riichiSnap.undone
                     THEN [riichiSnap EXCEPT !.undone = TRUE]
                     ELSE NoSnap
    /\ IF ~Truthy(playerRiichi, playerIndex)
       THEN UNCHANGED storeVars
       ELSE /\ players' = Refunded(players, playerIndex)
            /\ playerRiichi' = ArraySet(playerRiichi, playerIndex, FALSE)
            /\ riichiBets' = PoolAfterUndo(riichiBets)
            /\ UNCHANGED <<phase, startingScore, rounds, currentRoundNumber,
                           currentRoundWind, honba, dealerIndex>>

\* (mutant) only what a player receives is applied.
ApplyPayments_CreditsOnly(ps, payments) ==
    [k \in 1 .. Len(ps) |-> [ps[k] EXCEPT !.score = @ + Max(0, Pay(payments, ps[k].id))]]

\* Apply payments to player scores.
ApplyPayments(ps, payments) ==
    [k \in 1 .. Len(ps) |-> [ps[k] EXCEPT !.score = @ + Pay(payments, ps[k].id)]]

\* (mutant) the seat winds follow the new dealer and the dealer flags do not.
Reassigned_StaleFlag(ps, newDealerIndex) ==
    [k \in 1 .. Len(ps) |->
        [ps[k] EXCEPT !.seatWind = seatWindOf(k - 1, newDealerIndex, Len(ps))]]

\* Reassign dealer flag and seat winds for the new dealer.
Reassigned(ps, newDealerIndex) ==
    [k \in 1 .. Len(ps) |->
        [ps[k] EXCEPT !.isDealer = JsEq(k - 1, newDealerIndex),
                      !.seatWind = seatWindOf(k - 1, newDealerIndex, Len(ps))]]

\* (mutant) the wind stays East when the rotation wraps.
Rotation_NoWindAdvance ==
    LET newDealerIndex == JsMod(JsAdd(dealerIndex, 1), Len(players))
    IN IF JsEq(newDealerIndex, 0)
       THEN [dealer |-> newDealerIndex, number |-> 1, wind |-> currentRoundWind, phase |-> "playing"]
       ELSE [dealer |-> newDealerIndex, number |-> JsAdd(newDealerIndex, 1),
             wind |-> currentRoundWind, phase |-> "playing"]

\* (mutant) the match goes on when the rotation wraps in South.
Rotation_NeverFinishes ==
    LET newDealerIndex == JsMod(JsAdd(dealerIndex, 1), Len(players))
    IN IF JsEq(newDealerIndex, 0)
       THEN IF currentRoundWind = "East"
            THEN [dealer |-> newDealerIndex, number |-> 1, wind |-> "South", phase |-> "playing"]
            ELSE [dealer |-> newDealerIndex, number |-> currentRoundNumber,
                  wind |-> currentRoundWind, phase |-> "playing"]
       ELSE [dealer |-> newDealerIndex, number |-> JsAdd(newDealerIndex, 1),
             wind |-> currentRoundWind, phase |-> "playing"]

\* (mutant) the match is finished when the rotation wraps for the first time.
Rotation_FinishesAtFirstWrap ==
    LET newDealerIndex == JsMod(JsAdd(dealerIndex, 1), Len(players))
    IN IF JsEq(newDealerIndex, 0)
       THEN [dealer |-> newDealerIndex, number |-> currentRoundNumber,
             wind |-> currentRoundWind, phase |-> "finished"]
       ELSE [dealer |-> newDealerIndex, number |-> JsAdd(newDealerIndex, 1),
             wind |-> currentRoundWind, phase |-> "playing"]

\* The dealer moves on: the next dealer, round number, round wind and phase.
Rotation ==
    LET newDealerIndex == JsMod(JsAdd(dealerIndex, 1), Len(players))
    IN IF JsEq(newDealerIndex, 0)
       THEN IF currentRoundWind = "East"
            THEN [dealer |-> newDealerIndex, number |-> 1, wind |-> "South", phase |-> "playing"]
            ELSE [dealer |-> newDealerIndex, number |-> currentRoundNumber,
                  wind |-> currentRoundWind, phase |-> "finished"]
       ELSE [dealer |-> newDealerIndex, number |-> JsAdd(newDealerIndex, 1),
             wind |-> currentRoundWind, phase |-> "playing"]

\* (mutant) a dealer who stays starts the round count again.
NoRotation_RoundOne ==
    [dealer |-> dealerIndex, number |-> 1,
     wind |-> currentRoundWind, phase |-> "playing"]

\* The dealer stays.
NoRotation ==
    [dealer |-> dealerIndex, number |-> currentRoundNumber,
     wind |-> currentRoundWind, phase |-> "playing"]

\* const winnerIsDealer = winner?.isDealer ?? false
WinnerIsDealer(winnerId) == Has(players, winnerId) /\ Find(players, winnerId).isDealer

\* (mutant) the record of a win carries honba 0.
WinRound_HonbaZero(round) ==
    [roundNumber |-> currentRoundNumber, roundWind |-> currentRoundWind,
     honba |-> 0, riichiBets |-> riichiBets,
     winnerId |-> round.winnerId, loserId |-> round.loserId,
     isTsumo |-> round.isTsumo, isDraw |-> round.isDraw,
     tenpaiPlayerIds |-> round.tenpaiPlayerIds,
     han |-> round.han, fu |-> round.fu, payments |-> round.payments]

\* The record a win leaves in the history.
WinRound(round) ==
    [roundNumber |-> currentRoundNumber, roundWind |-> currentRoundWind,
     honba |-> honba, riichiBets |-> riichiBets,
     winnerId |-> round.winnerId, loserId |-> round.loserId,
     isTsumo |-> round.isTsumo, isDraw |-> round.isDraw,
     tenpaiPlayerIds |-> round.tenpaiPlayerIds,
     han |-> round.han, fu |-> round.fu, payments |-> round.payments]

\* (mutant) the sticks stay on the table after a win.
PoolAfterWin_Kept == riichiBets

\* The bet pool after a win.
PoolAfterWin == 0

\* The phase a round leaves the session in.
PhaseAfterRound(next) == next.phase

recordWin(round) ==
    LET winnerIsDealer == WinnerIsDealer(round.winnerId)
        next == IF winnerIsDealer THEN NoRotation ELSE Rotation
        newHonba == IF winnerIsDealer THEN honba + 1 ELSE 0
    IN /\ players' = Reassigned(ApplyPayments(players, round.payments), next.dealer)
       /\ rounds' = <<WinRound(round)>> \o rounds
       /\ currentRoundNumber' = next.number
       /\ currentRoundWind' = next.wind
       /\ honba' = newHonba
       /\ riichiBets' = PoolAfterWin
       /\ playerRiichi' = AllFalse(Len(players))
       /\ dealerIndex' = next.dealer
       /\ phase' = PhaseAfterRound(next)
       /\ UNCHANGED startingScore
       /\ Called("recordWin", 0)
       /\ riichiSnap' = NoSnap

\* The record a draw leaves in the history.
DrawRound(tenpaiPlayerIds, payments) ==
    [roundNumber |-> currentRoundNumber, roundWind |-> currentRoundWind,
     honba |-> honba, riichiBets |-> riichiBets,
     winnerId |-> Null, loserId |-> Null,
     isTsumo |-> FALSE, isDraw |-> TRUE,
     tenpaiPlayerIds |-> tenpaiPlayerIds,
     han |-> 0, fu |-> 0, payments |-> payments]

\* (mutant) the riichi flags stay as they are through a draw.
FlagsAfterDraw_Kept(count) == playerRiichi

\* The riichi flags after a draw.
FlagsAfterDraw(count) == AllFalse(count)

recordDraw(tenpaiPlayerIds) ==
    IF dealerIndex \notin Indexes(players)
    THEN \* players[dealerIndex] is undefined: reading its id throws a TypeError
         /\ Threw("recordDraw", 0)
         /\ riichiSnap' = NoSnap
         /\ UNCHANGED storeVars
    ELSE LET payments == computeDrawPayments(players, tenpaiPlayerIds)
             dealerIsTenpai == At(players, dealerIndex).id \in tenpaiPlayerIds
             next == IF dealerIsTenpai THEN NoRotation ELSE Rotation
         IN /\ players' = Reassigned(ApplyPayments(players, payments), next.dealer)
            /\ rounds' = <<DrawRound(tenpaiPlayerIds, payments)>> \o rounds
            /\ currentRoundNumber' = next.number
            /\ currentRoundWind' = next.wind
            /\ honba' = honba + 1
            /\ playerRiichi' = FlagsAfterDraw(Len(players))
            /\ dealerIndex' = next.dealer
            /\ phase' = PhaseAfterRound(next)
            /\ UNCHANGED <<startingScore, riichiBets>>
            /\ Called("recordDraw", 0)
            /\ riichiSnap' = NoSnap

\* (mutant) ending the game takes the sticks off the table.
endGame_ClearsBets ==
    /\ phase' = "finished"
    /\ riichiBets' = 0
    /\ playerRiichi' = AllFalse(Len(players))
    /\ UNCHANGED <<players, startingScore, rounds, currentRoundNumber,
                   currentRoundWind, honba, dealerIndex>>
    /\ Called("endGame", 0)
    /\ riichiSnap' = NoSnap

endGame ==
    /\ phase' = "finished"
    /\ UNCHANGED <<players, startingScore, rounds, currentRoundNumber,
                   currentRoundWind, honba, riichiBets, playerRiichi, dealerIndex>>
    /\ Called("endGame", 0)
    /\ riichiSnap' = NoSnap

\* (mutant) the reset leaves the dealer index as it is.
resetGame_KeepsDealer ==
    /\ phase' = "setup"
    /\ players' = <<>>
    /\ rounds' = <<>>
    /\ currentRoundNumber' = 1
    /\ currentRoundWind' = "East"
    /\ honba' = 0
    /\ riichiBets' = 0
    /\ playerRiichi' = <<>>
    /\ UNCHANGED <<startingScore, dealerIndex>>
    /\ Called("resetGame", 0)
    /\ riichiSnap' = NoSnap

resetGame ==
    /\ phase' = "setup"
    /\ players' = <<>>
    /\ rounds' = <<>>
    /\ currentRoundNumber' = 1
    /\ currentRoundWind' = "East"
    /\ honba' = 0
    /\ riichiBets' = 0
    /\ playerRiichi' = <<>>
    /\ dealerIndex' = 0
    /\ UNCHANGED startingScore
    /\ Called("resetGame", 0)
    /\ riichiSnap' = NoSnap

----------------------------------------------------------------------------
\* The state after construction.

\* scoreResponse = null
NoResponse ==
    [is_winning |-> FALSE, error |-> "null", han |-> 0, fu |-> 0,
     total_points |-> 0, dealer_payment |-> 0, non_dealer_payment |-> 0]

\* RoundModal as mounted: hidden, nothing selected, no request in flight.
NoRoundModal ==
    [visible |-> FALSE, step |-> "select", winnerId |-> Null, loserId |-> Null,
     isTsumo |-> TRUE, scoreResponse |-> NoResponse, loading |-> FALSE, inflight |-> 0]

NoDrawModal == [visible |-> FALSE, tenpaiIds |-> {}]

\* No calculator was called.
NoCalc ==
    [fn |-> "none", ps |-> <<>>, tenpaiPlayerIds |-> {}, winnerId |-> Null,
     dealerPayment |-> 0, nonDealerPayment |-> 0, result |-> <<>>]

Init ==
    /\ phase = "setup"
    /\ players = <<>>
    /\ startingScore = DefaultScore
    /\ rounds = <<>>
    /\ currentRoundNumber = 1
    /\ currentRoundWind = "East"
    /\ honba = 0
    /\ riichiBets = 0
    /\ playerRiichi = <<>>
    /\ dealerIndex = 0
    /\ lastOp = [name |-> "create", arg |-> 0, threw |-> FALSE]
    /\ riichiSnap = NoSnap
    /\ calc = NoCalc
    /\ screen = "Setup"
    /\ roundModal = NoRoundModal
    /\ drawModal = NoDrawModal

----------------------------------------------------------------------------
\* The inputs of the store's actions.

\* The player counts initGame is called with: 3 and 4, and the unsupported 2.
PlayerCounts == {2, 3, 4}

StartingScores == {DefaultScore}

\* The player objects of the setup screen; with cycled, the seat winds, scores
\* and dealer flags they carry are not the ones initGame assigns.
Supplied(count, score, cycled) ==
    [k \in 1 .. count |->
        [id |-> PlayerId(k - 1),
         score |-> IF cycled THEN 0 ELSE score,
         isDealer |-> IF cycled THEN FALSE ELSE k = 1,
         seatWind |-> IF cycled THEN "North" ELSE WINDS[k]]]

\* The scoring service's answers for a winning hand (error "" is no error).
WinningResponses ==
    {[is_winning |-> TRUE, error |-> "", han |-> 3, fu |-> 30,
      total_points |-> 3900, dealer_payment |-> 2000, non_dealer_payment |-> 1000]}

\* The player index the riichi calls are made with: the player seated after
\* the dealer (index 0 when the store holds no player).
RiichiIndexes ==
    IF dealerIndex \notin Indexes(players) THEN {0}
    ELSE {(dealerIndex + 1) % Len(players)}

\* The id of the player seated offset seats after the dealer.
SeatId(offset) == At(players, (dealerIndex + offset) % Len(players)).id

\* The outcome facts of a win, settled by the calculators: a self-draw by a
\* winner, or a discard win from the player seated after the winner.  With no
\* player in the store the facts name players the store does not hold.
WinInputs ==
    IF dealerIndex \notin Indexes(players)
    THEN {[winnerId |-> PlayerId(0), loserId |-> PlayerId(1), isTsumo |-> FALSE,
           isDraw |-> FALSE, tenpaiPlayerIds |-> {}, han |-> r.han, fu |-> r.fu,
           payments |-> RonPayments(players, PlayerId(0), PlayerId(1), r.total_points)]
          : r \in WinningResponses}
    ELSE {[winnerId |-> SeatId(o), loserId |-> Null, isTsumo |-> TRUE,
           isDraw |-> FALSE, tenpaiPlayerIds |-> {}, han |-> r.han, fu |-> r.fu,
           payments |-> computeTsumoPayments(players, SeatId(o), r.dealer_payment,
                                             r.non_dealer_payment, r.total_points)]
          : o \in {0, 1}, r \in WinningResponses}
         \cup
         {[winnerId |-> SeatId(o), loserId |-> SeatId(o + 1), isTsumo |-> FALSE,
           isDraw |-> FALSE, tenpaiPlayerIds |-> {}, han |-> r.han, fu |-> r.fu,
           payments |-> RonPayments(players, SeatId(o), SeatId(o + 1), r.total_points)]
          : o \in {0, 1}, r \in WinningResponses}

\* The tenpai sets of the recorded draws: nobody, everybody, the dealer alone,
\* the player after the dealer alone, everybody but the dealer.
TenpaiSets ==
    IF dealerIndex \notin Indexes(players)
    THEN {{}}
    ELSE {{}, IdsOf(players), {SeatId(0)}, {SeatId(1)}, IdsOf(players) \ {SeatId(0)}}

----------------------------------------------------------------------------
\* The store called as an API.

InitGame ==
    /\ \E count \in PlayerCounts, score \in StartingScores, cycled \in BOOLEAN :
           initGame(Supplied(count, score, cycled), score)
    /\ UNCHANGED uiVars

DeclareRiichi ==
    /\ \E i \in RiichiIndexes : declareRiichi(i)
    /\ UNCHANGED uiVars

UndoRiichi ==
    /\ \E i \in RiichiIndexes : undoRiichi(i)
    /\ UNCHANGED uiVars

RecordWin ==
    /\ Len(rounds) < MaxRounds
    /\ \E round \in WinInputs : recordWin(round)
    /\ UNCHANGED uiVars

RecordDraw ==
    /\ Len(rounds) < MaxRounds
    /\ \E tenpai \in TenpaiSets : recordDraw(tenpai)
    /\ UNCHANGED uiVars

EndGame ==
    /\ endGame
    /\ UNCHANGED uiVars

ResetGame ==
    /\ resetGame
    /\ UNCHANGED uiVars

Next ==
    \/ InitGame
    \/ DeclareRiichi
    \/ UndoRiichi
    \/ RecordWin
    \/ RecordDraw
    \/ EndGame
    \/ ResetGame

Spec == Init /\ [][Next]_vars


----------------------------------------------------------------------------
\* The scoring call (api/score.ts).

\* What the scoring service does with a request: it answers with data, the
\* request times out, or it is refused with a validation error (422).
ServerResponses ==
    WinningResponses
    \cup {[is_winning |-> FALSE, error |-> "no yaku", han |-> 0, fu |-> 0,
           total_points |-> 0, dealer_payment |-> 0, non_dealer_payment |-> 0]}

ServiceOutcomes ==
    {[kind |-> "data", data |-> r, message |-> ""] : r \in ServerResponses}
    \cup {[kind |-> "throws", data |-> NoResponse, message |-> m]
          : m \in {"timeout of 15000ms exceeded", "Request failed with status code 422"}}

\* The answer a failed call is turned into.
ErrorResponse(message) ==
    [is_winning |-> FALSE, error |-> message, han |-> 0, fu |-> 0,
     total_points |-> 0, dealer_payment |-> 0, non_dealer_payment |-> 0]

calculateScore(outcome) ==
    IF outcome.kind = "data" THEN outcome.data ELSE ErrorResponse(outcome.message)

----------------------------------------------------------------------------
\* The score sheet (ScoreModal.tsx).

\* (mutant) the sheet credits the winner of a self-draw with the total points.
ScoreTsumoPayments_TotalPoints(ps, response, winnerId) ==
    LET winnerIsDealer == Find(ps, winnerId).isDealer
        pays(p) == IF winnerIsDealer \/ p.isDealer
                   THEN response.dealer_payment ELSE response.non_dealer_payment
        out == [id \in IdsOf(ps) \ {winnerId} |-> -pays(Find(ps, id))]
    IN [id \in IdsOf(ps) |-> IF id = winnerId THEN response.total_points ELSE out[id]]

\* The self-draw payments of the score sheet.
ScoreTsumoPayments(ps, response, winnerId) ==
    LET winnerIsDealer == Find(ps, winnerId).isDealer
        pays(p) == IF winnerIsDealer \/ p.isDealer
                   THEN response.dealer_payment ELSE response.non_dealer_payment
        out == [id \in IdsOf(ps) \ {winnerId} |-> -pays(Find(ps, id))]
        absOut == [id \in DOMAIN out |-> Abs(out[id])]
        totalIn == SumOver(absOut, DOMAIN absOut)
    IN [id \in IdsOf(ps) |-> IF id = winnerId THEN totalIn ELSE out[id]]

\* The discard-win payments of the score sheet: the loser's entry is written
\* first, the winner's second.
ScoreRonPayments(ps, response, winnerId, loserId) ==
    [id \in IdsOf(ps) \cup {winnerId, loserId} |->
        IF id = winnerId THEN response.total_points
        ELSE IF id = loserId THEN -response.total_points
        ELSE 0]

\* The payments the score sheet computes when it renders.
ScorePayments(ps, response, winnerId, loserId, isTsumo) ==
    IF response.is_winning /\ isTsumo THEN ScoreTsumoPayments(ps, response, winnerId)
    ELSE IF response.is_winning /\ loserId # Null
         THEN ScoreRonPayments(ps, response, winnerId, loserId)
    ELSE [id \in IdsOf(ps) |-> 0]

\* Rendering the score sheet throws: the sheet of a winning hand reads the
\* winner's fields, and no player is the winner.
ScoreRenderThrows(ps, response, winnerId) == response.is_winning /\ ~Has(ps, winnerId)

----------------------------------------------------------------------------
\* The client: the screens and the modals of the game screen.

NoModal == ~roundModal.visible /\ ~drawModal.visible

\* The players the client's selections are made among.
AppChoices == IdsOf(players)

\* RoundModal.handleClose: the selection is reset and the modal is hidden;
\* requests in flight stay in flight.
Closed(modal) == [NoRoundModal EXCEPT !.inflight = modal.inflight]

\* RoundModal.canProceed
canProceed == roundModal.winnerId # Null /\ (roundModal.isTsumo \/ roundModal.loserId # Null)

\* The hand input is on screen.
HandShown == roundModal.visible /\ roundModal.step = "hand" /\ roundModal.winnerId # Null

\* The score sheet is on screen.
ScoreShown ==
    /\ roundModal.visible
    /\ ~HandShown
    /\ roundModal.step = "score"
    /\ roundModal.scoreResponse # NoResponse

\* The select sheet is also what RoundModal shows when neither the hand input
\* nor the score sheet can be shown.
SheetShown == roundModal.visible /\ ~HandShown /\ ~ScoreShown

HandleStart ==
    /\ screen = "Setup"
    /\ \E count \in {3, 4}, score \in StartingScores, cycled \in BOOLEAN :
           initGame(Supplied(count, score, cycled), score)
    /\ screen' = "Game"
    /\ roundModal' = NoRoundModal
    /\ drawModal' = NoDrawModal

LongPressDeclare ==
    /\ screen = "Game" /\ NoModal
    /\ \E i \in RiichiIndexes : ~Truthy(playerRiichi, i) /\ declareRiichi(i)
    /\ UNCHANGED uiVars

LongPressUndo ==
    /\ screen = "Game" /\ NoModal
    /\ \E i \in RiichiIndexes : Truthy(playerRiichi, i) /\ undoRiichi(i)
    /\ UNCHANGED uiVars

OpenRoundModal ==
    /\ screen = "Game" /\ NoModal
    /\ Len(rounds) < MaxAppRounds
    /\ roundModal' = [roundModal EXCEPT !.visible = TRUE]
    /\ UNCHANGED <<storeVars, auxVars, screen, drawModal>>

SelectWinner ==
    /\ SheetShown
    /\ \E id \in AppChoices : roundModal' = [roundModal EXCEPT !.winnerId = id]
    /\ UNCHANGED <<storeVars, auxVars, screen, drawModal>>

SetTsumo ==
    /\ SheetShown
    /\ \E b \in BOOLEAN : roundModal' = [roundModal EXCEPT !.isTsumo = b]
    /\ UNCHANGED <<storeVars, auxVars, screen, drawModal>>

SelectLoser ==
    /\ SheetShown
    /\ ~roundModal.isTsumo
    /\ \E id \in AppChoices \ {roundModal.winnerId} :
           roundModal' = [roundModal EXCEPT !.loserId = id]
    /\ UNCHANGED <<storeVars, auxVars, screen, drawModal>>

EnterHand ==
    /\ SheetShown
    /\ canProceed
    /\ roundModal' = [roundModal EXCEPT !.step = "hand", !.loading = FALSE]
    /\ UNCHANGED <<storeVars, auxVars, screen, drawModal>>

HandBack ==
    /\ HandShown
    /\ roundModal' = [roundModal EXCEPT !.step = "select", !.loading = FALSE]
    /\ UNCHANGED <<storeVars, auxVars, screen, drawModal>>

HandleCalculate ==
    /\ HandShown
    /\ ~roundModal.loading
    /\ roundModal.inflight < MaxInflight
    /\ roundModal' = [roundModal EXCEPT !.loading = TRUE, !.inflight = @ + 1]
    /\ UNCHANGED <<storeVars, auxVars, screen, drawModal>>

\* The scoring call returns and RoundModal.handleResult takes its answer.
ScoreArrives ==
    /\ screen \in {"Game", "Result"}
    /\ roundModal.inflight > 0
    /\ \E outcome \in ServiceOutcomes :
           roundModal' = [roundModal EXCEPT !.scoreResponse = calculateScore(outcome),
                                            !.step = "score",
                                            !.loading = FALSE,
                                            !.inflight = @ - 1]
    /\ UNCHANGED <<storeVars, auxVars, screen, drawModal>>

\* (mutant) the NEXT button is shown for a hand that does not win too.
NextShown_AnyResponse ==
    /\ ScoreShown
    /\ ~ScoreRenderThrows(players, roundModal.scoreResponse, roundModal.winnerId)

\* The score sheet shows the NEXT button.
NextShown ==
    /\ ScoreShown
    /\ roundModal.scoreResponse.is_winning
    /\ ~ScoreRenderThrows(players, roundModal.scoreResponse, roundModal.winnerId)

\* NEXT: RoundModal.handleNext with the payments of the score sheet.
ScoreNext ==
    /\ NextShown
    /\ LET loserId == IF roundModal.isTsumo THEN Null ELSE roundModal.loserId
           payments == ScorePayments(players, roundModal.scoreResponse,
                                     roundModal.winnerId, loserId, roundModal.isTsumo)
       IN recordWin([winnerId |-> roundModal.winnerId, loserId |-> loserId,
                     isTsumo |-> roundModal.isTsumo, isDraw |-> FALSE,
                     tenpaiPlayerIds |-> {},
                     han |-> roundModal.scoreResponse.han,
                     fu |-> roundModal.scoreResponse.fu,
                     payments |-> payments])
    /\ roundModal' = Closed(roundModal)
    /\ UNCHANGED <<screen, drawModal>>

\* BACK on the sheet of a hand that does not win.
ScoreBack ==
    /\ ScoreShown
    /\ ~roundModal.scoreResponse.is_winning
    /\ roundModal' = Closed(roundModal)
    /\ UNCHANGED <<storeVars, auxVars, screen, drawModal>>

\* The modal is dismissed (onRequestClose), whatever it shows.
RequestClose ==
    /\ roundModal.visible
    /\ roundModal' = Closed(roundModal)
    /\ UNCHANGED <<storeVars, auxVars, screen, drawModal>>

\* The score sheet of a winning hand is rendered with no winner selected.
RenderCrash ==
    /\ ScoreShown
    /\ ScoreRenderThrows(players, roundModal.scoreResponse, roundModal.winnerId)
    /\ screen' = "Error"
    /\ UNCHANGED <<storeVars, auxVars, roundModal, drawModal>>

OpenDrawModal ==
    /\ screen = "Game" /\ NoModal
    /\ Len(rounds) < MaxAppRounds
    /\ drawModal' = [drawModal EXCEPT !.visible = TRUE]
    /\ UNCHANGED <<storeVars, auxVars, screen, roundModal>>

togglePlayer ==
    /\ screen = "Game" /\ drawModal.visible
    /\ \E id \in AppChoices :
           drawModal' = [drawModal EXCEPT !.tenpaiIds =
                            IF id \in @ THEN @ \ {id} ELSE @ \cup {id}]
    /\ UNCHANGED <<storeVars, auxVars, screen, roundModal>>

DrawConfirm ==
    /\ screen = "Game" /\ drawModal.visible
    /\ recordDraw(drawModal.tenpaiIds)
    /\ drawModal' = IF lastOp'.threw THEN drawModal ELSE NoDrawModal
    /\ UNCHANGED <<screen, roundModal>>

DrawClose ==
    /\ screen = "Game" /\ drawModal.visible
    /\ drawModal' = NoDrawModal
    /\ UNCHANGED <<storeVars, auxVars, screen, roundModal>>

HandleEnd ==
    /\ screen = "Game" /\ NoModal
    /\ endGame
    /\ screen' = "Result"
    /\ UNCHANGED <<roundModal, drawModal>>

HandleRematch ==
    /\ screen = "Result"
    /\ resetGame
    /\ screen' = "Setup"
    /\ roundModal' = NoRoundModal
    /\ drawModal' = NoDrawModal

NextApp ==
    \/ HandleStart
    \/ LongPressDeclare
    \/ LongPressUndo
    \/ OpenRoundModal
    \/ SelectWinner
    \/ SetTsumo
    \/ SelectLoser
    \/ EnterHand
    \/ HandBack
    \/ HandleCalculate
    \/ ScoreArrives
    \/ ScoreNext
    \/ ScoreBack
    \/ RequestClose
    \/ RenderCrash
    \/ OpenDrawModal
    \/ togglePlayer
    \/ DrawConfirm
    \/ DrawClose
    \/ HandleEnd
    \/ HandleRematch

SpecApp == Init /\ [][NextApp]_vars

----------------------------------------------------------------------------
\* A match played from setup, round after round: the store is initialised
\* once, and every round is a win or a draw in which the dealer stays or
\* moves on.

\* The wins of a match: the dealer's self-draw, and a discard win of the player
\* after the dealer from the player after that one.
MatchWins ==
    {[winnerId |-> SeatId(0), loserId |-> Null, isTsumo |-> TRUE,
      isDraw |-> FALSE, tenpaiPlayerIds |-> {}, han |-> r.han, fu |-> r.fu,
      payments |-> computeTsumoPayments(players, SeatId(0), r.dealer_payment,
                                        r.non_dealer_payment, r.total_points)]
     : r \in WinningResponses}
    \cup
    {[winnerId |-> SeatId(1), loserId |-> SeatId(2), isTsumo |-> FALSE,
      isDraw |-> FALSE, tenpaiPlayerIds |-> {}, han |-> r.han, fu |-> r.fu,
      payments |-> RonPayments(players, SeatId(1), SeatId(2), r.total_points)]
     : r \in WinningResponses}

\* The draws of a match: nobody tenpai, the dealer alone tenpai.
MatchDraws == {{}, {SeatId(0)}}

MatchStart ==
    /\ phase = "setup"
    /\ \E count \in PlayerCounts :
           initGame(Supplied(count, DefaultScore, FALSE), DefaultScore)
    /\ UNCHANGED uiVars

MatchWin ==
    /\ phase # "setup"
    /\ Len(rounds) < MaxMatchRounds
    /\ \E round \in MatchWins : recordWin(round)
    /\ UNCHANGED uiVars

MatchDraw ==
    /\ phase # "setup"
    /\ Len(rounds) < MaxMatchRounds
    /\ \E tenpai \in MatchDraws : recordDraw(tenpai)
    /\ UNCHANGED uiVars

NextMatch ==
    \/ MatchStart
    \/ MatchWin
    \/ MatchDraw

SpecMatch == Init /\ [][NextMatch]_vars

----------------------------------------------------------------------------
\* The settlement calculators called on their own.

\* The player lists the store can hold: 2, 3 or 4 players, any of them dealer.
CalcPlayers ==
    UNION {{Reassigned(Initialised(Supplied(count, DefaultScore, FALSE), DefaultScore), dealer)
            : dealer \in 0 .. (count - 1)} : count \in PlayerCounts}

\* The rates a self-draw is settled with.
CalcRates == {0, 1000, 2000}

CalcDraw ==
    /\ \E ps \in CalcPlayers : \E tenpaiPlayerIds \in SUBSET IdsOf(ps) :
           calc' = [fn |-> "computeDrawPayments", ps |-> ps,
                    tenpaiPlayerIds |-> tenpaiPlayerIds, winnerId |-> Null,
                    dealerPayment |-> 0, nonDealerPayment |-> 0,
                    result |-> computeDrawPayments(ps, tenpaiPlayerIds)]
    /\ UNCHANGED <<storeVars, lastOp, riichiSnap, uiVars>>

CalcTsumo ==
    /\ \E ps \in CalcPlayers : \E winnerId \in IdsOf(ps) :
       \E dealerPayment \in CalcRates, nonDealerPayment \in CalcRates :
           calc' = [fn |-> "computeTsumoPayments", ps |-> ps,
                    tenpaiPlayerIds |-> {}, winnerId |-> winnerId,
                    dealerPayment |-> dealerPayment, nonDealerPayment |-> nonDealerPayment,
                    result |-> computeTsumoPayments(ps, winnerId, dealerPayment, nonDealerPayment,
                                                    dealerPayment + 2 * nonDealerPayment)]
    /\ UNCHANGED <<storeVars, lastOp, riichiSnap, uiVars>>

\* The answer of the scoring service for a self-draw with the given rates
\* (the total of a self-draw on a dealer and two other players).
CalcResponse(dealerPayment, nonDealerPayment) ==
    [is_winning |-> TRUE, error |-> "", han |-> 3, fu |-> 30,
     total_points |-> dealerPayment + 2 * nonDealerPayment,
     dealer_payment |-> dealerPayment, non_dealer_payment |-> nonDealerPayment]

\* The score sheet computes the payments of a self-draw.
CalcSheetTsumo ==
    /\ \E ps \in CalcPlayers : \E winnerId \in IdsOf(ps) :
       \E dealerPayment \in CalcRates, nonDealerPayment \in CalcRates :
           calc' = [fn |-> "ScoreModal", ps |-> ps,
                    tenpaiPlayerIds |-> {}, winnerId |-> winnerId,
                    dealerPayment |-> dealerPayment, nonDealerPayment |-> nonDealerPayment,
                    result |-> ScorePayments(ps, CalcResponse(dealerPayment, nonDealerPayment),
                                             winnerId, Null, TRUE)]
    /\ UNCHANGED <<storeVars, lastOp, riichiSnap, uiVars>>

NextCalc ==
    \/ CalcDraw
    \/ CalcTsumo
    \/ CalcSheetTsumo

SpecCalc == Init /\ [][NextCalc]_vars

----------------------------------------------------------------------------
\* Properties of the store (checked under Spec).

\* A round was just recorded (the call returned).
Recorded == lastOp.name \in {"recordWin", "recordDraw"} /\ ~lastOp.threw

\* The call being made is one of names, and it returns.
Calling(names) == lastOp'.name \in names /\ ~lastOp'.threw

\* The number of players whose dealer flag is set.
DealerFlags == Cardinality({k \in 1 .. Len(players) : players[k].isDealer})

\* The dealer index is a player index, that player holds the dealer flag and
\* no other player does.
OneDealer ==
    /\ dealerIndex \in Indexes(players)
    /\ At(players, dealerIndex).isDealer
    /\ DealerFlags = 1

\* C1: conservation law -- after every recordWin and recordDraw of a session
\* of 3 or 4 players (payments that sum to zero, riichi calls in between),
\* the sum of the scores plus 1000 for every stick of the bet pool is the
\* number of players times the starting score.
C1_Conservation ==
    (Recorded /\ Len(players) \in {3, 4})
        => SumScores(players) + RiichiStick * riichiBets = Len(players) * startingScore

\* C2 as claimed: in every reachable state the dealer index is in
\* [0, playerCount) and exactly one player, players[dealerIndex], holds the
\* dealer flag.
C2_OneDealerAlways == OneDealer

\* C2 as amended: in every reachable state that holds at least one player, the
\* dealer index is in [0, playerCount) and exactly one player,
\* players[dealerIndex], holds the dealer flag.
C2_OneDealerWhenPlayers == players # <<>> => OneDealer

\* C2 witness: a session of three players whose dealer has moved on twice.
C2_Witness ==
    /\ Len(players) = 3
    /\ dealerIndex = 2
    /\ Len(rounds) = 2
    /\ OneDealer

\* C3: the phase only moves forward -- no call but resetGame changes the phase
\* of a finished session, and no call but resetGame takes a playing session
\* back to setup.
C3_PhaseForward ==
    [][/\ (phase = "finished" /\ phase' # "finished") => lastOp'.name = "resetGame"
       /\ (phase = "playing" /\ phase' = "setup") => lastOp'.name = "resetGame"]_vars

\* C4: in a finished session recordWin, recordDraw, declareRiichi, undoRiichi
\* and initGame leave the whole session state as it is.
C4_FinishedRejects ==
    [][(phase = "finished"
        /\ lastOp'.name \in {"recordWin", "recordDraw", "declareRiichi", "undoRiichi", "initGame"})
       => UNCHANGED storeVars]_vars

\* C5: initGame with a player count other than 3 or 4 is rejected -- the call
\* throws and the session state stays as it is.
C5_InitRejectsCount ==
    [][(lastOp'.name = "initGame" /\ lastOp'.arg \notin {3, 4})
       => (lastOp'.threw /\ UNCHANGED storeVars)]_vars

\* C6: in setup recordWin, recordDraw, declareRiichi and undoRiichi leave the
\* dealer index, round number, honba, bet pool, history and phase as they are.
C6_SetupRejects ==
    [][(phase = "setup"
        /\ lastOp'.name \in {"recordWin", "recordDraw", "declareRiichi", "undoRiichi"})
       => UNCHANGED <<dealerIndex, currentRoundNumber, honba, riichiBets, rounds, phase>>]_vars

\* The payments of the record at the front of the history are all zero.
FrontPaymentsZero(rs) == \A id \in DOMAIN rs[1].payments : rs[1].payments[id] = 0

\* The draw at the front of the history is an all-tenpai or an all-noten draw.
FrontDrawIsUniform(rs, ps) == rs[1].tenpaiPlayerIds \in {{}, IdsOf(ps)}

\* What C9 says of every draw but the riichi flags: the bet pool stays, honba
\* goes up by one, an all-tenpai or all-noten draw pays nothing.
DrawKeepsPool ==
    /\ riichiBets' = riichiBets
    /\ honba' = honba + 1
    /\ FrontDrawIsUniform(rounds', players) => FrontPaymentsZero(rounds')

\* C9 as claimed: after a draw the bet pool and every player's riichi flag are
\* what they were before it, an all-tenpai or all-noten draw pays nothing, and
\* honba has gone up by one.
C9_DrawKeepsPoolAndFlags ==
    [][Calling({"recordDraw"}) => (DrawKeepsPool /\ playerRiichi' = playerRiichi)]_vars

\* C9 as amended: after a draw the bet pool is what it was before it and every
\* player's riichi flag is cleared, an all-tenpai or all-noten draw pays
\* nothing, and honba has gone up by one.
C9_DrawKeepsPoolClearsFlags ==
    [][Calling({"recordDraw"})
       => (DrawKeepsPool /\ playerRiichi' = AllFalse(Len(players)))]_vars

\* C9 witness: an all-tenpai draw of the first round, recorded while a riichi
\* stick was on the table; the stick is still there and no flag is set.
C9_Witness ==
    /\ Recorded /\ lastOp.name = "recordDraw"
    /\ Len(rounds) = 1
    /\ rounds[1].tenpaiPlayerIds = IdsOf(players)
    /\ rounds[1].riichiBets = 1
    /\ riichiBets = 1
    /\ \A i \in Indexes(playerRiichi) : ~At(playerRiichi, i)

\* In a playing session a declareRiichi(i) on an existing player was followed
\* at once by undoRiichi(i).
RoundTripDone ==
    /\ phase = "playing"
    /\ riichiSnap.undone
    /\ riichiSnap.idx \in Indexes(players)

\* The score and flag of the player of the round trip and the bet pool are what
\* the declareRiichi call saw.
RoundTripRestored ==
    /\ At(players, riichiSnap.idx).score = riichiSnap.score
    /\ riichiBets = riichiSnap.bets
    /\ Truthy(playerRiichi, riichiSnap.idx) = riichiSnap.flag

\* C10 as claimed: declareRiichi(i) followed at once by undoRiichi(i) restores
\* the player's score, the bet pool and the player's flag, for every player and
\* every prior state.
C10_RoundTripAlways == RoundTripDone => RoundTripRestored

\* C10 as amended: declareRiichi(i) followed at once by undoRiichi(i) restores
\* the player's score, the bet pool and the player's flag, for every player
\* whose flag was not set before the declareRiichi.
C10_RoundTripFromUndeclared == (RoundTripDone /\ ~riichiSnap.flag) => RoundTripRestored

\* C10 witness: a round trip from an undeclared flag in a playing session with a
\* stick of an earlier round on the table.
C10_Witness ==
    /\ RoundTripDone /\ ~riichiSnap.flag
    /\ phase = "playing"
    /\ riichiSnap.bets = 1


----------------------------------------------------------------------------
\* Properties of the client (checked under SpecApp).

\* This step records a win.
RecordsWin == Len(rounds') = Len(rounds) + 1 /\ ~(rounds'[1]).isDraw

\* This step delivers the answer of a scoring call, and the answer is not a
\* winning hand (the call threw or timed out, or the service refused the hand).
FailedAnswerArrives ==
    /\ roundModal'.inflight = roundModal.inflight - 1
    /\ roundModal'.step = "score"
    /\ roundModal'.scoreResponse # NoResponse
    /\ ~roundModal'.scoreResponse.is_winning

\* The score sheet shows an answer that is not a winning hand.
FailedAnswerShown == ScoreShown /\ ~roundModal.scoreResponse.is_winning

\* C7: a scoring call that throws, times out or answers with an error or a
\* hand that does not win changes nothing of the session state, neither when
\* its answer arrives nor while the sheet shows it; and a win is recorded only
\* from a sheet that shows a winning answer.
C7_FailedScoringKeepsState ==
    [][/\ FailedAnswerArrives => UNCHANGED storeVars
       /\ FailedAnswerShown => UNCHANGED storeVars
       /\ RecordsWin => (ScoreShown /\ roundModal.scoreResponse.is_winning)]_vars

\* C7 witness: the sheet shows the answer of a call that timed out, in a
\* session with a riichi stick on the table and no round recorded.
C7_Witness ==
    /\ FailedAnswerShown
    /\ roundModal.scoreResponse.error = "timeout of 15000ms exceeded"
    /\ riichiBets = 1
    /\ rounds = <<>>
    /\ phase = "playing"

\* C8: the payments of every round record of the history sum to zero, for the
\* draws and for the wins recorded through the client's win flow.
C8_RecordsZeroSum ==
    \A k \in 1 .. Len(rounds) : SumPayments(rounds[k].payments) = 0

----------------------------------------------------------------------------
\* Properties of the riichi calls (checked under Spec).

\* The number of players whose riichi flag is set.
FlagCount == Cardinality({i \in Indexes(playerRiichi) : At(playerRiichi, i)})

\* The call being made is name(i), for a player i of the store.
CallingOn(name, i) == Calling({name}) /\ lastOp'.arg = i /\ i \in Indexes(players)

\* Every field of every player but player i is left as it is, and so are the
\* fields of player i other than the score.
OnlyScoreOf(i, delta) ==
    /\ Len(players') = Len(players)
    /\ \A j \in Indexes(players) :
           At(players', j) = IF j = i THEN [At(players, j) EXCEPT !.score = @ + delta]
                             ELSE At(players, j)

\* The flag of player i becomes flag, the flags of the others stay.
OnlyFlagOf(i, flag) ==
    \A j \in Indexes(players) :
        Truthy(playerRiichi', j) = IF j = i THEN flag ELSE Truthy(playerRiichi, j)

\* C11: declareRiichi(i) on a player whose flag is not set takes exactly 1000
\* from that player's score, sets that player's flag and adds one to the bet
\* pool, and leaves the other players' scores and flags as they are; on a
\* player whose flag is set it changes nothing.
C11_DeclareEffect ==
    [][\A i \in Indexes(players) :
         CallingOn("declareRiichi", i)
         => IF Truthy(playerRiichi, i)
            THEN UNCHANGED storeVars
            ELSE /\ OnlyScoreOf(i, -1000)
                 /\ OnlyFlagOf(i, TRUE)
                 /\ riichiBets' = riichiBets + 1]_vars

\* C11 witness: a second declareRiichi on the same player has just returned;
\* the player has paid one stick and the pool holds one.
C11_Witness ==
    /\ lastOp.name = "declareRiichi"
    /\ riichiSnap.set /\ riichiSnap.flag
    /\ riichiSnap.idx \in Indexes(players)
    /\ At(players, riichiSnap.idx).score = startingScore - 1000
    /\ riichiBets = 1
    /\ FlagCount = 1

\* C12: undoRiichi(i) changes nothing when the flag of player i is not set;
\* otherwise it gives exactly 1000 back to player i, clears the flag and takes
\* one from the bet pool; and in every reachable state the bet pool is at
\* least 0 and at least the number of flags that are set.
C12_UndoEffect ==
    [][/\ riichiBets >= 0 /\ riichiBets >= FlagCount
       /\ riichiBets' >= 0 /\ riichiBets' >= FlagCount'
       /\ \A i \in Indexes(players) :
            CallingOn("undoRiichi", i)
            => IF ~Truthy(playerRiichi, i)
               THEN UNCHANGED storeVars
               ELSE /\ OnlyScoreOf(i, 1000)
                    /\ OnlyFlagOf(i, FALSE)
                    /\ riichiBets' = riichiBets - 1]_vars

\* C12 witness: undoRiichi has just returned without effect right after a draw
\* that left a stick on the table.
C12_Witness ==
    /\ lastOp.name = "undoRiichi"
    /\ lastOp.arg \in Indexes(players)
    /\ Len(rounds) = 1 /\ rounds[1].isDraw
    /\ rounds[1].riichiBets = 1
    /\ riichiBets = 1
    /\ FlagCount = 0
    /\ SumScores(players) = Len(players) * startingScore - 1000

----------------------------------------------------------------------------
\* Properties of recordWin and initGame (checked under Spec).

\* The record the call being made puts at the front of the history.
FrontRound == rounds'[1]

\* The call being made is a recordWin whose winner holds the dealer flag.
DealerWins == Calling({"recordWin"}) /\ WinnerIsDealer(FrontRound.winnerId)

\* Every player but the winner loses rate, the winner gains the sum.
AllPayWinner(winnerId, rate) ==
    \A j \in Indexes(players) :
        At(players', j).score =
            IF At(players, j).id = winnerId
            THEN At(players, j).score + rate * (Len(players) - 1)
            ELSE At(players, j).score - rate

\* C13: a recordWin whose winner holds the dealer flag leaves the dealer
\* index, the round number and the wind as they are and adds exactly one to
\* honba; when it is a self-draw every other player's score drops by the
\* dealer rate and the dealer's score rises by the sum.
C13_DealerWin ==
    [][DealerWins
       => /\ dealerIndex' = dealerIndex
          /\ currentRoundNumber' = currentRoundNumber
          /\ currentRoundWind' = currentRoundWind
          /\ honba' = honba + 1
          /\ FrontRound.isTsumo
             => \A r \in WinningResponses : AllPayWinner(FrontRound.winnerId, r.dealer_payment)]_vars

\* C13 witness: the second dealer of a session of four has just won by
\* self-draw in round 2; honba is 1 and the dealer has gained three payments.
C13_Witness ==
    /\ lastOp.name = "recordWin"
    /\ Len(players) = 4
    /\ Len(rounds) = 2
    /\ rounds[1].isTsumo /\ rounds[1].roundNumber = 2 /\ rounds[1].honba = 0
    /\ dealerIndex = 1 /\ At(players, 1).id = rounds[1].winnerId
    /\ currentRoundNumber = 2
    /\ honba = 1
    /\ rounds[1].payments[rounds[1].winnerId] = 6000

\* C16: after every recordWin the bet pool is 0 and the riichi flag of every
\* player is cleared, whatever the pool and the flags were before.
C16_WinClearsBets ==
    lastOp.name = "recordWin"
        => /\ riichiBets = 0
           /\ Len(playerRiichi) = Len(players)
           /\ \A i \in Indexes(playerRiichi) : ~At(playerRiichi, i)

\* C16 witness: a win has just been recorded over a pool of two sticks, one of
\* them declared in the round of the win.
C16_Witness ==
    /\ lastOp.name = "recordWin"
    /\ Len(rounds) = 2
    /\ rounds[1].riichiBets = 2
    /\ SumScores(players) = Len(players) * startingScore - 2000
    /\ riichiBets = 0

\* C20: initGame leaves the session playing, every score at the starting
\* score, player i with seat wind i of East, South, West, North, the dealer
\* flag on the first player alone, dealer index 0, an empty history, round 1,
\* wind East, honba 0, an empty bet pool and every riichi flag cleared,
\* whatever the supplied player objects carried.
C20_InitGameResult ==
    lastOp.name = "initGame"
        => /\ phase = "playing"
           /\ Len(players) = lastOp.arg
           /\ \A i \in Indexes(players) :
                  /\ At(players, i).id = PlayerId(i)
                  /\ At(players, i).score = startingScore
                  /\ At(players, i).seatWind = WINDS[i + 1]
                  /\ At(players, i).isDealer = (i = 0)
           /\ dealerIndex = 0
           /\ rounds = <<>>
           /\ currentRoundNumber = 1
           /\ currentRoundWind = "East"
           /\ honba = 0
           /\ riichiBets = 0
           /\ playerRiichi = AllFalse(Len(players))

\* C20 witness: initGame has just returned for four players.
C20_Witness ==
    /\ lastOp.name = "initGame"
    /\ Len(players) = 4
    /\ At(players, 3).seatWind = "North"
    /\ phase = "playing"

----------------------------------------------------------------------------
\* Properties of the dealer rotation (checked under SpecMatch).

\* The call being made is a recordWin whose winner is a player without the
\* dealer flag.
NonDealerWins ==
    /\ Calling({"recordWin"})
    /\ Has(players, FrontRound.winnerId)
    /\ ~WinnerIsDealer(FrontRound.winnerId)

\* The seat after the dealer's.
AdvancedDealer == (dealerIndex + 1) % Len(players)

\* The dealer moves to the next seat; back at seat 0 the wind goes from East to
\* South and the round number to 1, or the match is finished when the wind is
\* South already; at any other seat the round number is the seat's number and
\* the wind stays.
DealerMovesOn ==
    /\ dealerIndex' = AdvancedDealer
    /\ IF AdvancedDealer = 0 /\ currentRoundWind = "East"
       THEN currentRoundWind' = "South" /\ currentRoundNumber' = 1
       ELSE IF AdvancedDealer = 0
            THEN phase' = "finished"
            ELSE /\ currentRoundNumber' = AdvancedDealer + 1
                 /\ currentRoundWind' = currentRoundWind

\* C14: a recordWin whose winner is not the dealer sets honba to 0 and moves
\* the dealer to (dealerIndex + 1) mod playerCount; when the new dealer index
\* is 0 the wind goes from East to South and the round number to 1, or, the
\* wind being South already, the phase becomes finished; otherwise the round
\* number becomes the new dealer index + 1 and the wind stays.
C14_NonDealerWin == [][NonDealerWins => (honba' = 0 /\ DealerMovesOn)]_vars

\* C14 witness: in a session of four the eighth win in a row of a player who
\* is not the dealer has just finished the match.
C14_Witness ==
    /\ lastOp.name = "recordWin"
    /\ Len(players) = 4
    /\ Len(rounds) = 8
    /\ \A k \in 1 .. 8 : ~rounds[k].isDraw /\ ~rounds[k].isTsumo
    /\ rounds[1].roundWind = "South" /\ rounds[1].roundNumber = 4
    /\ rounds[5].roundWind = "East" /\ rounds[5].roundNumber = 4
    /\ rounds[4].roundWind = "South" /\ rounds[4].roundNumber = 1
    /\ dealerIndex = 0
    /\ honba = 0
    /\ phase = "finished"

\* The dealer before the call is among the tenpai players of the draw.
DealerIsTenpai == At(players, dealerIndex).id \in FrontRound.tenpaiPlayerIds

\* C15: in recordDraw, when the dealer is tenpai the dealer index and the
\* round number stay; when the dealer is not, dealer, round number, wind and
\* phase change as in the non-dealer win; honba goes up by exactly one in both
\* cases.
C15_DrawRotation ==
    [][Calling({"recordDraw"})
       => /\ honba' = honba + 1
          /\ IF DealerIsTenpai
             THEN dealerIndex' = dealerIndex /\ currentRoundNumber' = currentRoundNumber
             ELSE DealerMovesOn]_vars

\* C15 witness: in a session of three the sixth draw in a row without a tenpai
\* dealer has just finished the match, after a draw that kept the dealer.
C15_Witness ==
    /\ lastOp.name = "recordDraw"
    /\ Len(players) = 3
    /\ Len(rounds) = 7
    /\ \A k \in 1 .. 7 : rounds[k].isDraw
    /\ rounds[7].tenpaiPlayerIds # {}
    /\ rounds[6].roundNumber = 1 /\ rounds[6].honba = 1
    /\ rounds[1].roundWind = "South" /\ rounds[1].roundNumber = 3
    /\ dealerIndex = 0
    /\ honba = 7
    /\ phase = "finished"

----------------------------------------------------------------------------
\* Properties of the settlement calculators (checked under SpecCalc).

\* C17: computeDrawPayments, for a tenpai set that is a subset of the player
\* ids, gives a mapping with an entry for every player; every entry is 0 when
\* the set is empty or holds every player; otherwise a tenpai player receives
\* floor(3000 / tenpaiCount) and a noten player pays floor(3000 / notenCount).
C17_DrawPayments ==
    calc.fn = "computeDrawPayments"
        => LET ids == IdsOf(calc.ps)
               tenpaiCount == Cardinality(calc.tenpaiPlayerIds)
               notenCount == Len(calc.ps) - tenpaiCount
           IN /\ DOMAIN calc.result = ids
              /\ \A id \in ids :
                     calc.result[id] =
                         IF tenpaiCount = 0 \/ notenCount = 0 THEN 0
                         ELSE IF id \in calc.tenpaiPlayerIds THEN 3000 \div tenpaiCount
                         ELSE -(3000 \div notenCount)

\* C17 witness: the draw of a session of four with three tenpai players, the
\* dealer not among them: 1000 each, paid by the dealer.
C17_Witness ==
    /\ calc.fn = "computeDrawPayments"
    /\ Len(calc.ps) = 4
    /\ Cardinality(calc.tenpaiPlayerIds) = 3
    /\ \E k \in 1 .. 4 : /\ calc.ps[k].isDealer
                         /\ calc.ps[k].id \notin calc.tenpaiPlayerIds
                         /\ calc.result[calc.ps[k].id] = -3000
    /\ \A id \in calc.tenpaiPlayerIds : calc.result[id] = 1000

\* C18: computeTsumoPayments, for 3 or 4 players and rates that are not
\* negative: every player but the winner pays the dealer rate when the winner
\* is the dealer, and otherwise the dealer rate when that player is the dealer
\* and the non-dealer rate when not; the winner receives the sum of these
\* payments, and the mapping sums to zero.
C18_TsumoPayments ==
    (calc.fn = "computeTsumoPayments" /\ Len(calc.ps) \in {3, 4})
        => LET winner == Find(calc.ps, calc.winnerId)
               others == IdsOf(calc.ps) \ {calc.winnerId}
               due == [id \in others |->
                          IF winner.isDealer \/ Find(calc.ps, id).isDealer
                          THEN calc.dealerPayment ELSE calc.nonDealerPayment]
           IN /\ DOMAIN calc.result = IdsOf(calc.ps)
              /\ \A id \in others : calc.result[id] = -due[id]
              /\ calc.result[calc.winnerId] = SumOver(due, others)
              /\ SumPayments(calc.result) = 0

\* C18 witness: a self-draw of a player who is not the dealer in a session of
\* four: the dealer pays 2000, the two others 1000, the winner receives 4000.
C18_Witness ==
    /\ calc.fn = "computeTsumoPayments"
    /\ Len(calc.ps) = 4
    /\ ~Find(calc.ps, calc.winnerId).isDealer
    /\ calc.dealerPayment = 2000 /\ calc.nonDealerPayment = 1000
    /\ calc.result[calc.winnerId] = 4000
    /\ \E id \in IdsOf(calc.ps) : calc.result[id] = -2000

----------------------------------------------------------------------------
\* Properties of the discard win (checked under SpecApp).

\* C19: a discard win recorded through the client is a transfer between two
\* players: the loser's payment is minus the total points of the answer, the
\* winner's payment is plus the total points, every other payment is 0, and
\* recordWin changes the scores by these payments, the winner's and the
\* loser's alone.
C19_RonTwoParty ==
    [][(RecordsWin /\ ~FrontRound.isTsumo)
       => LET total == roundModal.scoreResponse.total_points
              winnerId == roundModal.winnerId
              loserId == roundModal.loserId
              payments == FrontRound.payments
          IN /\ Pay(payments, loserId) = -total
             /\ Pay(payments, winnerId) = total
             /\ \A id \in DOMAIN payments \ {winnerId, loserId} : payments[id] = 0
             /\ \A j \in Indexes(players) :
                    At(players', j).score = At(players, j).score + Pay(payments, At(players, j).id)]_vars

----------------------------------------------------------------------------
\* Properties of resetGame, endGame, the history and the seat winds (checked
\* under Spec).

\* C21: resetGame, from any phase, leaves the session in setup with no player,
\* an empty history, no riichi flag, round 1, wind East, honba 0, an empty bet
\* pool and dealer index 0.
C21_ResetResult ==
    lastOp.name = "resetGame"
        => /\ phase = "setup"
           /\ players = <<>>
           /\ rounds = <<>>
           /\ playerRiichi = <<>>
           /\ currentRoundNumber = 1
           /\ currentRoundWind = "East"
           /\ honba = 0
           /\ riichiBets = 0
           /\ dealerIndex = 0

\* C21 witness: resetGame has just returned.
C21_Witness ==
    /\ lastOp.name = "resetGame" /\ ~lastOp.threw
    /\ phase = "setup"
    /\ players = <<>>

\* C22: endGame sets the phase to finished from any state and leaves players,
\* scores, dealer index, round number, wind, honba, bet pool, riichi flags and
\* history as they are.
C22_EndGameFrame ==
    [][Calling({"endGame"})
       => /\ phase' = "finished"
          /\ UNCHANGED <<players, startingScore, dealerIndex, currentRoundNumber,
                         currentRoundWind, honba, riichiBets, playerRiichi, rounds>>]_vars

\* C22 witness: the game was ended in the second round, with the second
\* dealer, a riichi declared and its stick on the table.
C22_Witness ==
    /\ lastOp.name = "endGame"
    /\ phase = "finished"
    /\ Len(rounds) = 1
    /\ dealerIndex = 1 /\ currentRoundNumber = 2
    /\ riichiBets = 1
    /\ FlagCount = 1

SeatWindAt(i) == WINDS[((i - dealerIndex + Len(players)) % Len(players)) + 1]

\* C24: in every playing state, and after every recordWin and recordDraw, the
\* seat wind of player i is the wind (i - dealerIndex + playerCount) mod
\* playerCount of East, South, West, North; the dealer's seat wind is East and
\* no two players have the same seat wind.
C24_SeatWinds ==
    ((phase = "playing" \/ Recorded) /\ players # <<>>)
        => /\ \A i \in Indexes(players) : At(players, i).seatWind = SeatWindAt(i)
           /\ At(players, dealerIndex).seatWind = "East"
           /\ \A i, j \in Indexes(players) :
                  i # j => At(players, i).seatWind # At(players, j).seatWind

\* C24 witness: in a session of four the dealer has moved to the third seat;
\* the first player sits West.
C24_Witness ==
    /\ Recorded
    /\ Len(players) = 4
    /\ dealerIndex = 2
    /\ At(players, 0).seatWind = "West"
    /\ At(players, 3).seatWind = "South"

----------------------------------------------------------------------------
\* Properties of the round number.

\* The round number is a number, and at least 1.
RoundNumberOk == currentRoundNumber # NaN /\ currentRoundNumber >= 1

\* C25 (checked under Spec): in every reachable state the round number is at
\* least 1, and every step that takes the wind from East to South sets the
\* round number to 1.
C25_RoundNumber ==
    [][/\ RoundNumberOk
       /\ RoundNumberOk'
       /\ (currentRoundWind = "East" /\ currentRoundWind' = "South")
          => currentRoundNumber' = 1]_vars

\* C28 (checked under SpecMatch): in every playing state of a session of 3 or
\* 4 players the round number is the dealer index + 1.
C28_RoundIsDealerSeat ==
    (phase = "playing" /\ Len(players) \in {3, 4})
        => JsEq(currentRoundNumber, JsAdd(dealerIndex, 1))

----------------------------------------------------------------------------
\* More properties of the settlement calculators (checked under SpecCalc).

\* C26: for 3 or 4 players and every tenpai set among them the payments of a
\* draw sum to zero, and applying them leaves the sum of the scores as it is.
C26_DrawZeroSum ==
    (calc.fn = "computeDrawPayments" /\ Len(calc.ps) \in {3, 4})
        => /\ SumPayments(calc.result) = 0
           /\ SumScores(ApplyPayments(calc.ps, calc.result)) = SumScores(calc.ps)

\* C26 witness: the draw of a session of three with two tenpai players: 1500
\* each, 3000 paid by the third.
C26_Witness ==
    /\ calc.fn = "computeDrawPayments"
    /\ Len(calc.ps) = 3
    /\ Cardinality(calc.tenpaiPlayerIds) = 2
    /\ \A id \in calc.tenpaiPlayerIds : calc.result[id] = 1500
    /\ \E id \in IdsOf(calc.ps) : calc.result[id] = -3000

\* C30: the self-draw payments the score sheet computes are the mapping of
\* computeTsumoPayments for the same players, winner, dealer rate and
\* non-dealer rate, for every winner, dealer and pair of rates that are not
\* negative.
C30_SheetEqualsStore ==
    calc.fn = "ScoreModal"
        => calc.result = computeTsumoPayments(calc.ps, calc.winnerId, calc.dealerPayment,
                                              calc.nonDealerPayment,
                                              calc.dealerPayment + 2 * calc.nonDealerPayment)

\* C30 witness: the sheet of a self-draw of the dealer in a session of three:
\* 2000 from each of the others, 4000 to the dealer.
C30_Witness ==
    /\ calc.fn = "ScoreModal"
    /\ Len(calc.ps) = 3
    /\ Find(calc.ps, calc.winnerId).isDealer
    /\ calc.dealerPayment = 2000 /\ calc.nonDealerPayment = 1000
    /\ calc.result[calc.winnerId] = 4000

----------------------------------------------------------------------------
\* More properties of the client's win flow (checked under SpecApp).

\* C27: every discard win in the history, recorded through the client's win
\* flow, has a loser who is a player and is not the winner.
C27_RonHasLoser ==
    \A k \in 1 .. Len(rounds) :
        (~rounds[k].isDraw /\ ~rounds[k].isTsumo)
            => /\ rounds[k].loserId # Null
               /\ rounds[k].loserId # rounds[k].winnerId
               /\ Has(players, rounds[k].loserId)

----------------------------------------------------------------------------
\* The length of a match (checked under SpecMatch).

\* The record is of a round after which the dealer moved on: in a match the
\* wins are the dealer's self-draw and the discard win of another player, and
\* the draws have the dealer alone or nobody tenpai.
Advanced(r) == IF r.isDraw THEN r.tenpaiPlayerIds = {} ELSE ~r.isTsumo

\* The number of rounds of the history after which the dealer moved on.
AdvanceCount(rs) == Cardinality({k \in 1 .. Len(rs) : Advanced(rs[k])})

\* C29: from initGame with n players on, through recordWin and recordDraw, the
\* wind never goes back from South to East; up to the (2 * n)-th time the
\* dealer moves on, a round finishes the match exactly when it is the round in
\* which the dealer moves on for the (2 * n)-th time; and a round that keeps
\* the dealer never finishes it.
C29_MatchLength ==
    [][/\ currentRoundWind = "South" => currentRoundWind' = "South"
       /\ (Calling({"recordWin", "recordDraw"}) /\ AdvanceCount(rounds') <= 2 * Len(players))
          => ((phase' = "finished")
              <=> (Advanced(FrontRound) /\ AdvanceCount(rounds') = 2 * Len(players)))
       /\ (Calling({"recordWin", "recordDraw"}) /\ ~Advanced(FrontRound))
          => phase' # "finished"]_vars

\* C29 witness: a match of three is finished by the sixth round in which the
\* dealer moved on, the eighth round in all.
C29_Witness ==
    /\ Len(players) = 3
    /\ Len(rounds) = 8
    /\ AdvanceCount(rounds) = 6
    /\ Advanced(rounds[1])
    /\ ~Advanced(rounds[2]) /\ ~Advanced(rounds[8])
    /\ phase = "finished"
    /\ currentRoundWind = "South"

====
